---- MODULE Spec2Model ----
(***************************************************************************)
(* Model of the aggregation and scoring core of Mood-of-the-Internet       *)
(* (src/analytics.py) as it is driven by the analysis run of src/app.py.   *)
(*                                                                         *)
(* Numbers.  The code computes with IEEE doubles; the model computes with  *)
(* exact rationals [num, den] in lowest terms, and round(x, 1) is rounding *)
(* to the nearest tenth, ties to the even tenth.  On the inputs the model  *)
(* enumerates the two agree.                                               *)
(*                                                                         *)
(* Tables.  A DataFrame is [kind, columns, rows]; a Series produced by     *)
(* value_counts is a function from the observed labels to their values.    *)
(* None is [kind |-> "None"], a raised exception is [kind |-> "KeyError"]. *)
(***************************************************************************)
EXTENDS Integers, Sequences, FiniteSets, TLC

VARIABLES df, topic_info, sentiment_pct, emotion_pct, mood, volatility,
          correlation_df, narratives_df, insights, pc,
          texts, sentiment_results, emotion_results,
          topic_model, topics_fitted, topics, other_pc,
          models, target, other_target, other_fits

\* The classification step: the texts, each standing for what the two
\* classifiers do on it, and what get_sentiment and get_emotion returned
\* for the texts analysed so far.
classify_vars == <<texts, sentiment_results, emotion_results>>

\* The engine, one object shared by every session without a lock:
\* topic_model is the topic model object it refers to and topics_fitted its
\* flag. models holds, for every topic model object, the Topic Info table
\* it reports, or NotFitted. target is the object the run's fit_transform
\* was called on, topics what it returned. other_pc, other_target and
\* other_fits are another session's position in its own fit_topics, the
\* object its fit_transform was called on and the fits it has started.
fit_vars == <<topic_model, topics_fitted, topics, other_pc,
              models, target, other_target, other_fits>>

engine_vars == <<classify_vars, fit_vars>>

vars == <<df, topic_info, sentiment_pct, emotion_pct, mood, volatility,
          correlation_df, narratives_df, insights, pc, engine_vars>>

\* ---------------------------------------------------------------- bounds

\* Longest corpus of the analysis run.
MaxDocs == 3

\* A directly supplied Distribution takes its percentages from
\* {100 * i / GridSteps : i \in 0..GridSteps}.
GridSteps == 4

\* ---------------------------------------------------------------- labels

Sentiments == {"POSITIVE", "NEGATIVE", "NEUTRAL"}

Emotions == {"anger", "joy"}

GridEmotions == {"anger", "joy", "neutral", "sadness"}

\* Topic ids: -1 is the outlier topic of the topic model.
TopicIds == {-1, 0, 1}

None == [kind |-> "None"]

KeyError(key) == [kind |-> "KeyError", key |-> key]

\* The value of a field a Document Record does not supply (pandas' NaN).
NaN == "NaN"

\* The other session starts at most this many fits.
MaxOtherFits == 1

\* Topic model objects: 0 is the one the run's fit_topics constructs, k the
\* one the other session's k-th fit_topics constructs.
ModelIds == 0..MaxOtherFits

NoModel == -1

BERTopic(id) == [kind |-> "BERTopic", id |-> id]

NotFitted == [kind |-> "NotFitted"]

ValueError == [kind |-> "ValueError"]

AttributeError == [kind |-> "AttributeError"]

\* ------------------------------------------------------------- rationals

Abs(i) == IF i < 0 THEN -i ELSE i

RECURSIVE GCD(_, _)
GCD(a, b) == IF b = 0 THEN a ELSE GCD(b, a % b)

\* n / d in lowest terms, d > 0.
Rat(n, d) ==
    LET g == GCD(Abs(n), d)
    IN  [num |-> n \div g, den |-> d \div g]

Zero == Rat(0, 1)

FromInt(i) == Rat(i, 1)

RAdd(x, y) == Rat(x.num * y.den + y.num * x.den, x.den * y.den)

RSub(x, y) == Rat(x.num * y.den - y.num * x.den, x.den * y.den)

RMul(x, y) == Rat(x.num * y.num, x.den * y.den)

\* x / k for an integer k > 0.
RDivInt(x, k) == Rat(x.num, x.den * k)

RLe(x, y) == x.num * y.den <= y.num * x.den

RLt(x, y) == x.num * y.den < y.num * x.den

RMax(x, y) == IF RLt(x, y) THEN y ELSE x

RMin(x, y) == IF RLt(y, x) THEN y ELSE x

\* The integer nearest to x, a tie going to the even one.
RoundHalfEven(x) ==
    LET q == x.num \div x.den
        r == x.num % x.den
    IN  IF 2 * r < x.den THEN q
        ELSE IF 2 * r > x.den THEN q + 1
        ELSE IF q % 2 = 0 THEN q ELSE q + 1

\* round(x, 1)
Round1(x) == Rat(RoundHalfEven(RMul(x, FromInt(10))), 10)

\* ---------------------------------------------------------------- tables

\* The values of column col, in row order.
Column(frame, col) == [i \in 1..Len(frame.rows) |-> frame.rows[i][col]]

\* Number of positions of sequence s that hold v.
Count(s, v) == Cardinality({i \in 1..Len(s) : s[i] = v})

ValueCountsPctMutant(s) ==
    [l \in {s[i] : i \in 1..Len(s)} \ {NaN} |->
        Round1(Rat(100 * Count(s, l), Len(s) - Count(s, NaN)))]

\* Series.value_counts(normalize=True) * 100: each label that occurs in s,
\* with its share in percent. Labels that do not occur have no entry.
\* value_counts drops missing values (dropna=True): they have no entry
\* and do not count in the total.
value_counts_pct(s) ==
    [l \in {s[i] : i \in 1..Len(s)} \ {NaN} |->
        Rat(100 * Count(s, l), Len(s) - Count(s, NaN))]

\* Series.get(key, 0)
Get(series, key) == IF key \in DOMAIN series THEN series[key] ELSE Zero

RECURSIVE SumOver(_, _)
SumOver(series, keys) ==
    IF keys = {} THEN Zero
    ELSE LET k == CHOOSE x \in keys : TRUE
         IN  RAdd(Get(series, k), SumOver(series, keys \ {k}))

\* Series.max() and Series.min() of a non-empty Series.
SeriesMax(series) ==
    LET k == CHOOSE x \in DOMAIN series :
                 \A y \in DOMAIN series : RLe(series[y], series[x])
    IN  series[k]

SeriesMin(series) ==
    LET k == CHOOSE x \in DOMAIN series :
                 \A y \in DOMAIN series : RLe(series[x], series[y])
    IN  series[k]

\* ------------------------------------------------------------- analytics

\* The pair of Distributions, or the KeyError of df[column] for a frame
\* without the column.
compute_distributions(frame) ==
    IF "sentiment" \notin frame.columns THEN KeyError("sentiment")
    ELSE IF "emotion" \notin frame.columns THEN KeyError("emotion")
    ELSE [kind |-> "tuple",
          values |-> <<value_counts_pct(Column(frame, "sentiment")),
                       value_counts_pct(Column(frame, "emotion"))>>]

NegEmotions == {"anger", "disgust", "fear", "sadness"}

EmotionPenaltyMutant(e_pct) == SumOver(e_pct, NegEmotions)

emotion_penalty(e_pct) == RDivInt(SumOver(e_pct, NegEmotions), 4)

MoodScoreMutant(s_pct, e_pct) ==
    LET adjusted_score ==
            RSub(RSub(Get(s_pct, "POSITIVE"), Get(s_pct, "NEGATIVE")),
                 RMul(emotion_penalty(e_pct), Rat(3, 10)))
    IN  Round1(RMin(FromInt(100), RAdd(FromInt(50), RDivInt(adjusted_score, 2))))

mood_score(s_pct, e_pct) ==
    LET positive == Get(s_pct, "POSITIVE")
        negative == Get(s_pct, "NEGATIVE")
        base_score == RSub(positive, negative)
        adjusted_score ==
            RSub(base_score, RMul(emotion_penalty(e_pct), Rat(3, 10)))
        final_score ==
            RMax(Zero, RMin(FromInt(100),
                            RAdd(FromInt(50), RDivInt(adjusted_score, 2))))
    IN  Round1(final_score)

VolatilityIndexMutant(e_pct) ==
    IF DOMAIN e_pct = {} THEN Zero
    ELSE Round1(RSub(SeriesMax(e_pct), SeriesMin(e_pct)))

volatility_index(e_pct) ==
    IF DOMAIN e_pct = {} THEN Zero
    ELSE LET concentration ==
                 RDivInt(RSub(SeriesMax(e_pct), SeriesMin(e_pct)), 100)
             volatility_ == RMul(FromInt(100), RSub(FromInt(1), concentration))
         IN  Round1(volatility_)

\* pd.DataFrame(list of dicts): no rows gives a frame without columns.
DataFrame(rows) ==
    [kind |-> "DataFrame",
     columns |-> IF rows = <<>> THEN {} ELSE DOMAIN rows[1],
     rows |-> rows]

RECURSIVE UniqueMutant(_)
UniqueMutant(s) ==
    IF s = <<>> THEN <<>>
    ELSE LET rest == UniqueMutant(Tail(s))
         IN  IF \E i \in 1..Len(rest) : rest[i] = Head(s)
             THEN rest ELSE <<Head(s)>> \o rest

\* Series.unique(): the distinct values in order of first appearance.
RECURSIVE Unique(_)
Unique(s) ==
    IF s = <<>> THEN <<>>
    ELSE LET front == Unique(SubSeq(s, 1, Len(s) - 1))
             last == s[Len(s)]
         IN  IF \E i \in 1..Len(front) : front[i] = last
             THEN front ELSE Append(front, last)

\* df[df["topic"] == topic_id]
TopicRows(frame, topic_id) ==
    SelectSeq(frame.rows, LAMBDA r : r.topic = topic_id)

\* The orderings of 1..n.
Perms(n) ==
    {p \in [1..n -> 1..n] : \A i, j \in 1..n : i # j => p[i] # p[j]}

AscendingOrders(keys) ==
    {p \in Perms(Len(keys)) :
        \A i \in 1..(Len(keys) - 1) : keys[p[i]] <= keys[p[i + 1]]}

\* The index orders a descending sort of keys may produce. The code passes
\* no kind, so pandas sorts with its default ("quicksort"), which does not
\* promise the order of equal keys; what a run of equal keys comes out as
\* depends on the build of the libraries. Every order of a run of equal keys
\* is a possible outcome.
DescendingOrders(keys) ==
    {p \in Perms(Len(keys)) :
        \A i \in 1..(Len(keys) - 1) : keys[p[i]] >= keys[p[i + 1]]}

Reorder(rows, p) == [i \in 1..Len(rows) |-> rows[p[i]]]

\* The Correlation Entries of one topic: one per emotion of the topic's
\* documents, in the order of value_counts (descending count).
TopicEntries(frame, topic_id) ==
    LET emotions == Column([rows |-> TopicRows(frame, topic_id)], "emotion")
        labels == Unique(emotions)
        counts == [i \in 1..Len(labels) |-> Count(emotions, labels[i])]
    IN  {[i \in 1..Len(labels) |->
            [topic |-> topic_id,
             emotion |-> labels[p[i]],
             percentage |-> Round1(Rat(100 * counts[p[i]], Len(emotions)))]]
         : p \in DescendingOrders(counts)}

SkipOutlierMutant(topic_id) == FALSE

\* if topic_id == -1: continue
SkipOutlier(topic_id) == topic_id = -1

RECURSIVE CorrelationData(_, _)
CorrelationData(frame, topic_ids) ==
    IF topic_ids = <<>> THEN {<<>>}
    ELSE LET here == IF SkipOutlier(Head(topic_ids)) THEN {<<>>}
                     ELSE TopicEntries(frame, Head(topic_ids))
         IN  {a \o b : a \in here, b \in CorrelationData(frame, Tail(topic_ids))}

\* The possible results of topic_emotion_correlation(df).
topic_emotion_correlation(frame) ==
    IF "topic" \notin frame.columns THEN {None}
    ELSE {DataFrame(rows) :
            rows \in CorrelationData(frame, Unique(Column(frame, "topic")))}

\* The emotion labels of the classifier in sorted (lexicographic) order.
LabelOrder ==
    <<"anger", "disgust", "fear", "joy", "neutral", "sadness", "surprise">>

Rank(label) == CHOOSE i \in 1..Len(LabelOrder) : LabelOrder[i] = label

ModeFirstMutant(s) ==
    LET top == {l \in {s[i] : i \in 1..Len(s)} :
                   \A m \in {s[i] : i \in 1..Len(s)} : Count(s, m) <= Count(s, l)}
        reached(l) == CHOOSE i \in 1..Len(s) :
                          s[i] = l /\ Count(SubSeq(s, 1, i), l) = Count(s, l)
    IN  CHOOSE l \in top : \A m \in top : reached(l) <= reached(m)

\* Series.mode()[0]: mode() returns the most frequent values sorted, so
\* its first element is the least of them.
ModeFirst(s) ==
    LET top == {l \in {s[i] : i \in 1..Len(s)} :
                   \A m \in {s[i] : i \in 1..Len(s)} : Count(s, m) <= Count(s, l)}
    IN  CHOOSE l \in top : \A m \in top : Rank(l) <= Rank(m)

\* row.get("Name", f"Topic {topic_id}")
TopicName(row) ==
    IF "Name" \in DOMAIN row THEN row.Name ELSE <<"Topic ", row.Topic>>

SentimentRatioMutant(pos_count, neg_count, total) == Rat(pos_count, total)

\* (pos_count - neg_count) / total if total > 0 else 0
SentimentRatio(pos_count, neg_count, total) ==
    IF total > 0 THEN Rat(pos_count - neg_count, total) ELSE Zero

\* The dict appended for one row of Topic Info whose topic has documents.
Narrative(row, topic_docs) ==
    LET sentiments == Column([rows |-> topic_docs], "sentiment")
        pos_count == Count(sentiments, "POSITIVE")
        neg_count == Count(sentiments, "NEGATIVE")
        total == Len(topic_docs)
        sentiment_ratio == SentimentRatio(pos_count, neg_count, total)
    IN  [topic_id |-> row.Topic,
         narrative |-> TopicName(row),
         document_count |-> total,
         sentiment_score |-> Round1(RMul(sentiment_ratio, FromInt(100))),
         dominant_emotion |->
             IF Len(topic_docs) > 0
             THEN ModeFirst(Column([rows |-> topic_docs], "emotion"))
             ELSE "neutral",
         positive_pct |->
             IF total > 0 THEN Round1(RMul(Rat(pos_count, total), FromInt(100)))
             ELSE Zero,
         negative_pct |->
             IF total > 0 THEN Round1(RMul(Rat(neg_count, total), FromInt(100)))
             ELSE Zero]

SkipTopicMutant(frame, topic_id) == Len(TopicRows(frame, topic_id)) = 0

\* The two `continue`s of the loop: the outlier topic, and a topic without
\* documents.
SkipTopic(frame, topic_id) ==
    topic_id = -1 \/ Len(TopicRows(frame, topic_id)) = 0

\* The list `narratives` after the loop over topic_info.iterrows().
RECURSIVE Narratives(_, _)
Narratives(frame, info_rows) ==
    IF info_rows = <<>> THEN <<>>
    ELSE LET row == Head(info_rows)
             rest == Narratives(frame, Tail(info_rows))
         IN  IF SkipTopic(frame, row.Topic) THEN rest
             ELSE <<Narrative(row, TopicRows(frame, row.Topic))>> \o rest

\* The possible results of frame.sort_values(by, ascending=False): a
\* KeyError when the frame has no such column.
sort_values_descending(frame, by) ==
    IF by \notin frame.columns THEN {KeyError(by)}
    ELSE {[frame EXCEPT !.rows = Reorder(frame.rows, p)] :
            p \in DescendingOrders(Column(frame, by))}

\* The possible results of detect_narratives(df, topic_info).
detect_narratives(frame, info) ==
    IF "topic" \notin frame.columns \/ info.kind = "None" THEN {None}
    ELSE sort_values_descending(DataFrame(Narratives(frame, info.rows)),
                                "document_count")

\* The labels emotion_pct.idxmax() may return: the first label of the
\* Series that holds the maximum. The order of the Series is that of
\* value_counts, which the mapping does not record: every label that holds
\* the maximum is a possible outcome.
IdxMax(series) ==
    {l \in DOMAIN series : \A m \in DOMAIN series : RLe(series[m], series[l])}

Insight(kind, label, args) == [kind |-> kind, label |-> label, args |-> args]

MoodTier(m) ==
    IF RLe(FromInt(70), m) THEN "Highly Positive Mood"
    ELSE IF RLe(FromInt(50), m) THEN "Moderately Positive"
    ELSE IF RLe(FromInt(30), m) THEN "Mixed Sentiment"
    ELSE "Negative Mood"

HasNarrativesMutant(narratives) ==
    narratives.kind # "None" /\ Len(narratives.rows) > 1

\* narratives is not None and len(narratives) > 0
HasNarratives(narratives) ==
    narratives.kind # "None" /\ Len(narratives.rows) > 0

\* The possible results of get_insights(df, sentiment_pct, emotion_pct,
\* mood, narratives), one per label idxmax() may return. An insight is kept
\* as its kind, its heading and the values its f-string embeds (the
\* dominant emotion before .title(), the strength as :.1f, the sentiment
\* score as :+.0f).
get_insights(frame, s_pct, e_pct, m, narratives) ==
    LET mood_insight == Insight("mood", MoodTier(m), <<m>>)
        emotion_strength ==
            IF DOMAIN e_pct # {} THEN SeriesMax(e_pct) ELSE Zero
        dominants == IF DOMAIN e_pct # {} THEN IdxMax(e_pct) ELSE {"neutral"}
        emotion_insight(dominant_emotion) ==
            IF RLt(FromInt(40), emotion_strength)
            THEN Insight("emotion", "Strong Emotional Signal",
                         <<dominant_emotion, Round1(emotion_strength)>>)
            ELSE Insight("emotion", "Diverse Emotions", <<>>)
        volume_insight == Insight("volume", "Sample Size", <<Len(frame.rows)>>)
        topic_insight ==
            LET top_narrative == narratives.rows[1]
            IN  Insight("topic", "Top Narrative",
                        <<top_narrative.narrative,
                          top_narrative.document_count,
                          RoundHalfEven(top_narrative.sentiment_score)>>)
    IN  {<<mood_insight, emotion_insight(d), volume_insight>>
            \o (IF HasNarratives(narratives) THEN <<topic_insight>> ELSE <<>>)
         : d \in dominants}

\* ------------------------------------------------------------ input sets

Frame(columns, rows) ==
    [kind |-> "DataFrame", columns |-> columns, rows |-> rows]

\* A corpus without topic assignments.
PlainCorpora ==
    {Frame({"sentiment", "emotion"}, rows) :
        rows \in UNION {[1..n -> [sentiment : Sentiments, emotion : Emotions]]
                        : n \in 0..MaxDocs}}

\* A corpus after topic modelling.
TopicCorpora ==
    {Frame({"sentiment", "emotion", "topic"}, rows) :
        rows \in UNION {[1..n -> [sentiment : Sentiments, emotion : Emotions,
                                  topic : TopicIds]]
                        : n \in 0..MaxDocs}}

\* Topic Info tables: one row per topic id, each id at most once, with the
\* name of the topic model.
TopicInfos ==
    {Frame({"Topic", "Name"},
           [i \in 1..Len(ids) |-> [Topic |-> ids[i], Name |-> <<ids[i], "_terms">>]])
     : ids \in {s \in UNION {[1..n -> TopicIds] : n \in 0..Cardinality(TopicIds)} :
                  \A i, j \in 1..Len(s) : i # j => s[i] # s[j]}}

RECURSIVE GridSum(_, _)
GridSum(g, keys) ==
    IF keys = {} THEN 0
    ELSE LET k == CHOOSE x \in keys : TRUE
         IN  g[k] + GridSum(g, keys \ {k})

\* Distributions over a subset of labels with percentages on the grid and
\* a total of at most 100.
GridDistributions(labels) ==
    {[l \in DOMAIN g |-> Rat(100 * g[l], GridSteps)] :
        g \in {h \in UNION {[ks -> 0..GridSteps] : ks \in SUBSET labels} :
                 GridSum(h, DOMAIN h) <= GridSteps}}

\* Mood values next to the tier thresholds of get_insights and at the ends
\* of the scale, in tenths.
MoodInputs ==
    {Rat(10 * t + d, 10) : t \in {0, 30, 50, 70, 100}, d \in {-1, 0, 1}}
        \ {Rat(-1, 10), Rat(1001, 10)}

\* Narratives handed to get_insights: absent, empty, or one Topic Summary
\* per topic of a corpus.
NarrativeInputs ==
    {None, DataFrame(<<>>)}
        \cup UNION {detect_narratives(Frame({"sentiment", "emotion", "topic"}, rows),
                                      Frame({"Topic"}, <<[Topic |-> 0], [Topic |-> 1]>>))
                    : rows \in [1..2 -> [sentiment : {"POSITIVE", "NEGATIVE"},
                                         emotion : {"joy"},
                                         topic : {0, 1}]]}

\* ------------------------------------------------- the analysis run, app.py

\* The least value of the "Minimum Topic Size" slider.
MinTopicSize == 3

\* topic_model.get_topic_info() of a model fitted with these topic
\* assignments: one row per topic id assigned, in ascending order of id,
\* with the name of the topic model.
TopicModelInfo(assigned) ==
    LET present == {assigned[i] : i \in 1..Len(assigned)}
        ids == CHOOSE s \in [1..Cardinality(present) -> present] :
                   \A i, j \in 1..Cardinality(present) : i < j => s[i] < s[j]
    IN  Frame({"Topic", "Name"},
              [i \in 1..Len(ids) |-> [Topic |-> ids[i], Name |-> <<ids[i], "_terms">>]])

\* NLPEngine.get_topic_info: None on an engine whose flag is not set;
\* otherwise what the topic model the engine refers to answers, the table
\* of its fit, or the error of a model that is not fitted.
get_topic_info(fitted, model, heap) ==
    IF ~fitted THEN None
    ELSE IF model.kind = "None" THEN AttributeError
    ELSE IF heap[model.id].kind = "NotFitted" THEN ValueError
    ELSE heap[model.id]

\* The tables a fit of the other session leaves on a topic model.
OtherFits ==
    {TopicModelInfo(assigned) :
        assigned \in UNION {[1..n -> TopicIds] : n \in MinTopicSize..MaxDocs}}

\* The state after classification: the corpus, which is not empty (the
\* analysis refuses an empty list of texts), and the engine as constructed.
Init ==
    /\ df \in PlainCorpora
    /\ Len(df.rows) >= 1
    /\ topic_info = None
    /\ sentiment_pct = None
    /\ emotion_pct = None
    /\ mood = None
    /\ volatility = None
    /\ correlation_df = None
    /\ narratives_df = None
    /\ insights = <<>>
    /\ texts = <<>>
    /\ sentiment_results = <<>>
    /\ emotion_results = <<>>
    /\ topic_model = None
    /\ topics_fitted = FALSE
    /\ topics = None
    /\ other_pc = "idle"
    /\ models = [id \in ModelIds |-> NotFitted]
    /\ target = NoModel
    /\ other_target = NoModel
    /\ other_fits = 0
    /\ pc = "fit_topics"

\* app.py, step 3, when topics are enabled and there are at least
\* min_topic_size texts: engine.fit_topics starts by making the engine
\* refer to a new topic model.
FitTopicsReplace ==
    /\ pc = "fit_topics"
    /\ Len(df.rows) >= MinTopicSize
    /\ topic_model' = BERTopic(0)
    /\ pc' = "fit_transform"
    /\ UNCHANGED <<df, topic_info, sentiment_pct, emotion_pct, mood,
                   volatility, correlation_df, narratives_df, insights,
                   classify_vars, topics_fitted, topics, other_pc, models,
                   target, other_target, other_fits>>

\* fit_topics calls fit_transform on the topic model the engine refers to
\* at that moment.
FitTransformCall ==
    /\ pc = "fit_transform"
    /\ target' = topic_model.id
    /\ pc' = "fitting"
    /\ UNCHANGED <<df, topic_info, sentiment_pct, emotion_pct, mood,
                   volatility, correlation_df, narratives_df, insights,
                   classify_vars, topic_model, topics_fitted, topics,
                   other_pc, models, other_target, other_fits>>

\* fit_transform ends: the model it was called on is fitted, and the topic
\* of each text is returned. The engine's reference is not written.
FitTransformReturn ==
    /\ pc = "fitting"
    /\ topics' \in [1..Len(df.rows) -> TopicIds]
    /\ models' = [models EXCEPT ![target] = TopicModelInfo(topics')]
    /\ target' = NoModel
    /\ pc' = "fitted"
    /\ UNCHANGED <<df, topic_info, sentiment_pct, emotion_pct, mood,
                   volatility, correlation_df, narratives_df, insights,
                   classify_vars, topic_model, topics_fitted, other_pc,
                   other_target, other_fits>>

\* fit_transform raises; nothing catches it, the run ends and the engine
\* keeps referring to the model it refers to.
FitTransformRaises ==
    /\ pc = "fitting"
    /\ target' = NoModel
    /\ pc' = "raised_fit_topics"
    /\ UNCHANGED <<df, topic_info, sentiment_pct, emotion_pct, mood,
                   volatility, correlation_df, narratives_df, insights,
                   classify_vars, topic_model, topics_fitted, topics,
                   other_pc, models, other_target, other_fits>>

\* fit_topics sets the flag and returns; the topics become the topic
\* column.
FitTopicsReturn ==
    /\ pc = "fitted"
    /\ topics_fitted' = TRUE
    /\ df' = Frame(df.columns \cup {"topic"},
                   [i \in 1..Len(df.rows) |->
                       [sentiment |-> df.rows[i].sentiment,
                        emotion |-> df.rows[i].emotion,
                        topic |-> topics[i]]])
    /\ pc' = "topic_info"
    /\ UNCHANGED <<topic_info, sentiment_pct, emotion_pct, mood, volatility,
                   correlation_df, narratives_df, insights, classify_vars,
                   topic_model, topics, other_pc, models, target,
                   other_target, other_fits>>

\* The other session enters fit_topics on the shared engine and makes the
\* engine refer to a new topic model.
OtherSessionReplace ==
    /\ other_pc = "idle"
    /\ other_fits < MaxOtherFits
    /\ other_fits' = other_fits + 1
    /\ topic_model' = BERTopic(other_fits')
    /\ other_pc' = "fit_transform"
    /\ UNCHANGED <<df, topic_info, sentiment_pct, emotion_pct, mood,
                   volatility, correlation_df, narratives_df, insights, pc,
                   classify_vars, topics_fitted, topics, models, target,
                   other_target>>

\* The other session calls fit_transform on the topic model the engine
\* refers to at that moment.
OtherSessionFitTransformCall ==
    /\ other_pc = "fit_transform"
    /\ other_target' = topic_model.id
    /\ other_pc' = "fitting"
    /\ UNCHANGED <<df, topic_info, sentiment_pct, emotion_pct, mood,
                   volatility, correlation_df, narratives_df, insights, pc,
                   classify_vars, topic_model, topics_fitted, topics,
                   models, target, other_fits>>

\* The other session's fit_transform ends: the model it was called on is
\* fitted with the other session's topics.
OtherSessionFitTransformReturn ==
    /\ other_pc = "fitting"
    /\ \E info \in OtherFits :
           models' = [models EXCEPT ![other_target] = info]
    /\ other_target' = NoModel
    /\ other_pc' = "fitted"
    /\ UNCHANGED <<df, topic_info, sentiment_pct, emotion_pct, mood,
                   volatility, correlation_df, narratives_df, insights, pc,
                   classify_vars, topic_model, topics_fitted, topics,
                   target, other_fits>>

\* The other session's fit_transform raises: its run ends.
OtherSessionFitRaises ==
    /\ other_pc = "fitting"
    /\ other_target' = NoModel
    /\ other_pc' = "idle"
    /\ UNCHANGED <<df, topic_info, sentiment_pct, emotion_pct, mood,
                   volatility, correlation_df, narratives_df, insights, pc,
                   classify_vars, topic_model, topics_fitted, topics,
                   models, target, other_fits>>

\* The other session's fit_topics sets the flag and returns.
OtherSessionFitted ==
    /\ other_pc = "fitted"
    /\ topics_fitted' = TRUE
    /\ other_pc' = "idle"
    /\ UNCHANGED <<df, topic_info, sentiment_pct, emotion_pct, mood,
                   volatility, correlation_df, narratives_df, insights, pc,
                   classify_vars, topic_model, topics, models, target,
                   other_target, other_fits>>

\* app.py, step 3: topic_info = engine.get_topic_info(). An exception ends
\* the run.
GetTopicInfo ==
    /\ pc = "topic_info"
    /\ LET result == get_topic_info(topics_fitted, topic_model, models)
       IN  IF result.kind \in {"ValueError", "AttributeError"}
           THEN /\ pc' = "raised_topic_info"
                /\ UNCHANGED topic_info
           ELSE /\ topic_info' = result
                /\ pc' = "distributions"
    /\ UNCHANGED <<df, sentiment_pct, emotion_pct, mood, volatility,
                   correlation_df, narratives_df, insights>>
    /\ UNCHANGED engine_vars

\* app.py, step 3, the else branch: topics disabled or too few texts.
SkipTopics ==
    /\ pc = "fit_topics"
    /\ topic_info' = None
    /\ pc' = "distributions"
    /\ UNCHANGED <<df, sentiment_pct, emotion_pct, mood, volatility,
                   correlation_df, narratives_df, insights>>
    /\ UNCHANGED engine_vars

\* An exception of compute_distributions ends the run.
ComputeDistributions ==
    /\ pc = "distributions"
    /\ LET result == compute_distributions(df)
       IN  IF result.kind = "KeyError"
           THEN /\ sentiment_pct' = result
                /\ emotion_pct' = result
                /\ pc' = "raised"
           ELSE /\ sentiment_pct' = result.values[1]
                /\ emotion_pct' = result.values[2]
                /\ pc' = "mood"
    /\ UNCHANGED <<df, topic_info, mood, volatility, correlation_df,
                   narratives_df, insights>>
    /\ UNCHANGED engine_vars

MoodScore ==
    /\ pc = "mood"
    /\ mood' = mood_score(sentiment_pct, emotion_pct)
    /\ pc' = "volatility"
    /\ UNCHANGED <<df, topic_info, sentiment_pct, emotion_pct, volatility,
                   correlation_df, narratives_df, insights>>
    /\ UNCHANGED engine_vars

VolatilityIndex ==
    /\ pc = "volatility"
    /\ volatility' = volatility_index(emotion_pct)
    /\ pc' = "topics"
    /\ UNCHANGED <<df, topic_info, sentiment_pct, emotion_pct, mood,
                   correlation_df, narratives_df, insights>>
    /\ UNCHANGED engine_vars

TopicEmotionCorrelation ==
    /\ pc = "topics"
    /\ topic_info.kind # "None"
    /\ correlation_df' \in topic_emotion_correlation(df)
    /\ pc' = "narratives"
    /\ UNCHANGED <<df, topic_info, sentiment_pct, emotion_pct, mood,
                   volatility, narratives_df, insights>>
    /\ UNCHANGED engine_vars

\* An exception of detect_narratives ends the run: get_insights is not
\* reached.
DetectNarratives ==
    /\ pc = "narratives"
    /\ narratives_df' \in detect_narratives(df, topic_info)
    /\ pc' = IF narratives_df'.kind = "KeyError" THEN "raised" ELSE "insights"
    /\ UNCHANGED <<df, topic_info, sentiment_pct, emotion_pct, mood,
                   volatility, correlation_df, insights>>
    /\ UNCHANGED engine_vars

\* The else branch: no topic analytics.
NoTopics ==
    /\ pc = "topics"
    /\ topic_info.kind = "None"
    /\ correlation_df' = None
    /\ narratives_df' = None
    /\ pc' = "insights"
    /\ UNCHANGED <<df, topic_info, sentiment_pct, emotion_pct, mood,
                   volatility, insights>>
    /\ UNCHANGED engine_vars

GetInsights ==
    /\ pc = "insights"
    /\ insights' \in get_insights(df, sentiment_pct, emotion_pct, mood,
                                  narratives_df)
    /\ pc' = "done"
    /\ UNCHANGED <<df, topic_info, sentiment_pct, emotion_pct, mood,
                   volatility, correlation_df, narratives_df>>
    /\ UNCHANGED engine_vars

Next ==
    \/ FitTopicsReplace
    \/ FitTransformCall
    \/ FitTransformReturn
    \/ FitTransformRaises
    \/ FitTopicsReturn
    \/ OtherSessionReplace
    \/ OtherSessionFitTransformCall
    \/ OtherSessionFitTransformReturn
    \/ OtherSessionFitRaises
    \/ OtherSessionFitted
    \/ GetTopicInfo
    \/ SkipTopics
    \/ ComputeDistributions
    \/ MoodScore
    \/ VolatilityIndex
    \/ TopicEmotionCorrelation
    \/ DetectNarratives
    \/ NoTopics
    \/ GetInsights

Spec == Init /\ [][Next]_vars

\* ------------------------------------ compute_distributions on any corpus

InitDistributions ==
    /\ df \in PlainCorpora
    /\ topic_info = None
    /\ sentiment_pct = None
    /\ emotion_pct = None
    /\ mood = None
    /\ volatility = None
    /\ correlation_df = None
    /\ narratives_df = None
    /\ insights = <<>>
    /\ texts = <<>>
    /\ sentiment_results = <<>>
    /\ emotion_results = <<>>
    /\ topic_model = None
    /\ topics_fitted = FALSE
    /\ topics = None
    /\ other_pc = "idle"
    /\ models = [id \in ModelIds |-> NotFitted]
    /\ target = NoModel
    /\ other_target = NoModel
    /\ other_fits = 0
    /\ pc = "distributions"

NextDistributions == ComputeDistributions

SpecDistributions == InitDistributions /\ [][NextDistributions]_vars

\* ------------- compute_distributions on a corpus with missing field values

\* A corpus in which a record may lack its sentiment or its emotion, or
\* which lacks one of the two columns altogether.
MissingCorpora ==
    {Frame({"sentiment", "emotion"}, rows) :
        rows \in UNION {[1..n -> [sentiment : Sentiments \cup {NaN},
                                  emotion : Emotions \cup {NaN}]]
                        : n \in 0..MaxDocs}}
    \cup {Frame({"emotion"}, rows) :
            rows \in UNION {[1..n -> [emotion : Emotions]] : n \in 0..MaxDocs}}
    \cup {Frame({"sentiment"}, rows) :
            rows \in UNION {[1..n -> [sentiment : Sentiments]] : n \in 0..MaxDocs}}

InitMissing ==
    /\ df \in MissingCorpora
    /\ topic_info = None
    /\ sentiment_pct = None
    /\ emotion_pct = None
    /\ mood = None
    /\ volatility = None
    /\ correlation_df = None
    /\ narratives_df = None
    /\ insights = <<>>
    /\ texts = <<>>
    /\ sentiment_results = <<>>
    /\ emotion_results = <<>>
    /\ topic_model = None
    /\ topics_fitted = FALSE
    /\ topics = None
    /\ other_pc = "idle"
    /\ models = [id \in ModelIds |-> NotFitted]
    /\ target = NoModel
    /\ other_target = NoModel
    /\ other_fits = 0
    /\ pc = "distributions"

NextMissing == ComputeDistributions

SpecMissing == InitMissing /\ [][NextMissing]_vars

\* ------------------------------- the scorers on directly given Distributions

InitScore ==
    /\ df = Frame({"sentiment", "emotion"}, <<>>)
    /\ topic_info = None
    /\ sentiment_pct \in GridDistributions(Sentiments)
    /\ emotion_pct \in GridDistributions(GridEmotions)
    /\ mood = None
    /\ volatility = None
    /\ correlation_df = None
    /\ narratives_df = None
    /\ insights = <<>>
    /\ texts = <<>>
    /\ sentiment_results = <<>>
    /\ emotion_results = <<>>
    /\ topic_model = None
    /\ topics_fitted = FALSE
    /\ topics = None
    /\ other_pc = "idle"
    /\ models = [id \in ModelIds |-> NotFitted]
    /\ target = NoModel
    /\ other_target = NoModel
    /\ other_fits = 0
    /\ pc = "mood"

NextScore ==
    \/ MoodScore
    \/ VolatilityIndex

SpecScore == InitScore /\ [][NextScore]_vars

\* --------------------- the topic analytics on any corpus and any Topic Info

\* topic_emotion_correlation on every corpus with topic assignments, with
\* the Topic Info table of the corpus.
InitCorrelation ==
    /\ df \in TopicCorpora
    /\ topic_info = TopicModelInfo(Column(df, "topic"))
    /\ sentiment_pct = None
    /\ emotion_pct = None
    /\ mood = None
    /\ volatility = None
    /\ correlation_df = None
    /\ narratives_df = None
    /\ insights = <<>>
    /\ texts = <<>>
    /\ sentiment_results = <<>>
    /\ emotion_results = <<>>
    /\ topic_model = None
    /\ topics_fitted = FALSE
    /\ topics = None
    /\ other_pc = "idle"
    /\ models = [id \in ModelIds |-> NotFitted]
    /\ target = NoModel
    /\ other_target = NoModel
    /\ other_fits = 0
    /\ pc = "topics"

NextCorrelation == TopicEmotionCorrelation

SpecCorrelation == InitCorrelation /\ [][NextCorrelation]_vars

\* detect_narratives on every corpus with topic assignments and every
\* Topic Info table.
InitTopics ==
    /\ df \in TopicCorpora
    /\ topic_info \in TopicInfos
    /\ sentiment_pct = None
    /\ emotion_pct = None
    /\ mood = None
    /\ volatility = None
    /\ correlation_df = None
    /\ narratives_df = None
    /\ insights = <<>>
    /\ texts = <<>>
    /\ sentiment_results = <<>>
    /\ emotion_results = <<>>
    /\ topic_model = None
    /\ topics_fitted = FALSE
    /\ topics = None
    /\ other_pc = "idle"
    /\ models = [id \in ModelIds |-> NotFitted]
    /\ target = NoModel
    /\ other_target = NoModel
    /\ other_fits = 0
    /\ pc = "narratives"

NextTopics == DetectNarratives

SpecTopics == InitTopics /\ [][NextTopics]_vars

\* ------------------------------------- get_insights on directly given inputs

InitInsights ==
    /\ df \in {Frame({"sentiment", "emotion"},
                     [i \in 1..n |-> [sentiment |-> "NEUTRAL", emotion |-> "neutral"]])
               : n \in 0..MaxDocs}
    /\ topic_info = None
    /\ sentiment_pct = <<>>
    /\ emotion_pct \in GridDistributions(Emotions)
    /\ mood \in MoodInputs
    /\ volatility = None
    /\ correlation_df = None
    /\ narratives_df \in NarrativeInputs
    /\ insights = <<>>
    /\ texts = <<>>
    /\ sentiment_results = <<>>
    /\ emotion_results = <<>>
    /\ topic_model = None
    /\ topics_fitted = FALSE
    /\ topics = None
    /\ other_pc = "idle"
    /\ models = [id \in ModelIds |-> NotFitted]
    /\ target = NoModel
    /\ other_target = NoModel
    /\ other_fits = 0
    /\ pc = "insights"

NextInsights == GetInsights

SpecInsights == InitInsights /\ [][NextInsights]_vars

\* ------------------------------------------------------- classification

MaxTexts == 2

\* round(x, 3)
Round3(x) == Rat(RoundHalfEven(RMul(x, FromInt(1000))), 1000)

\* What a classifier does on a text: it raises, or it returns a result.
Raises == [kind |-> "raise"]

GetSentimentMutant(text) ==
    LET result == text.sentiment
    IN  IF result.kind = "raise" THEN <<"NEUTRAL", Zero>>
        ELSE <<result.label, Round3(result.score)>>

\* NLPEngine.get_sentiment: the label and the confidence rounded to three
\* decimals; whatever the classifier raises is caught.
get_sentiment(text) ==
    LET result == text.sentiment
    IN  IF result.kind = "raise" THEN <<"NEUTRAL", Rat(1, 2)>>
        ELSE <<result.label, Round3(result.score)>>

\* max(emotions, key=score): the first entry holding the greatest score.
Dominant(emotions) ==
    LET i == CHOOSE j \in 1..Len(emotions) :
                 /\ \A k \in 1..Len(emotions) :
                        RLe(emotions[k].score, emotions[j].score)
                 /\ \A k \in 1..(j - 1) :
                        RLt(emotions[k].score, emotions[j].score)
    IN  emotions[i]

\* NLPEngine.get_emotion: the dominant label and every score rounded to
\* three decimals; a raising classifier, and max() of an empty list, are
\* caught.
get_emotion(text) ==
    LET result == text.emotion
    IN  IF result.kind = "raise" \/ Len(result.emotions) = 0
        THEN <<"neutral", [l \in {} |-> Zero]>>
        ELSE <<Dominant(result.emotions).label,
               [l \in {result.emotions[i].label :
                          i \in 1..Len(result.emotions)} |->
                   Round3((CHOOSE e \in {result.emotions[i] :
                                            i \in 1..Len(result.emotions)} :
                              e.label = l).score)]>>

\* Scores the classifiers can report, away from the rounding ties.
HighScore == Rat(9996, 10000)

LowScore == Rat(4, 10000)

MidScore == Rat(5004, 10000)

SentimentOutcomes ==
    {Raises} \cup
    {[kind |-> "result", label |-> l, score |-> x] :
        l \in {"POSITIVE", "NEGATIVE"}, x \in {HighScore, MidScore}}

EmotionOutcomes ==
    {Raises, [kind |-> "result", emotions |-> <<>>]} \cup
    {[kind |-> "result",
      emotions |-> <<[label |-> order[1], score |-> x[1]],
                     [label |-> order[2], score |-> x[2]]>>] :
        order \in {<<"anger", "joy">>, <<"joy", "anger">>},
        x \in {<<HighScore, LowScore>>, <<LowScore, HighScore>>,
               <<MidScore, MidScore>>}}

Texts == [sentiment : SentimentOutcomes, emotion : EmotionOutcomes]

\* app.py, step 1: one iteration of the sentiment loop.
AnalyzeSentiment ==
    /\ pc = "sentiment"
    /\ Len(sentiment_results) < Len(texts)
    /\ sentiment_results' =
           Append(sentiment_results,
                  get_sentiment(texts[Len(sentiment_results) + 1]))
    /\ UNCHANGED <<df, topic_info, sentiment_pct, emotion_pct, mood,
                   volatility, correlation_df, narratives_df, insights, pc,
                   texts, emotion_results, fit_vars>>

\* app.py, step 1: the labels become the sentiment column, and the scores
\* the sentiment_score column when show_confidence is ticked.
StoreSentiments ==
    /\ pc = "sentiment"
    /\ Len(sentiment_results) = Len(texts)
    /\ \E show_confidence \in BOOLEAN :
           df' = [kind |-> "DataFrame",
                  columns |-> df.columns \cup {"sentiment"} \cup
                      (IF show_confidence THEN {"sentiment_score"} ELSE {}),
                  rows |-> [i \in 1..Len(texts) |->
                      IF show_confidence
                      THEN [text |-> texts[i],
                            sentiment |-> sentiment_results[i][1],
                            sentiment_score |-> sentiment_results[i][2]]
                      ELSE [text |-> texts[i],
                            sentiment |-> sentiment_results[i][1]]]]
    /\ pc' = "emotion"
    /\ UNCHANGED <<topic_info, sentiment_pct, emotion_pct, mood, volatility,
                   correlation_df, narratives_df, insights, engine_vars>>

\* app.py, step 2: one iteration of the emotion loop.
AnalyzeEmotion ==
    /\ pc = "emotion"
    /\ Len(emotion_results) < Len(texts)
    /\ emotion_results' =
           Append(emotion_results,
                  get_emotion(texts[Len(emotion_results) + 1]))
    /\ UNCHANGED <<df, topic_info, sentiment_pct, emotion_pct, mood,
                   volatility, correlation_df, narratives_df, insights, pc,
                   texts, sentiment_results, fit_vars>>

\* app.py, step 2: the dominant labels become the emotion column.
StoreEmotions ==
    /\ pc = "emotion"
    /\ Len(emotion_results) = Len(texts)
    /\ df' = [kind |-> "DataFrame",
              columns |-> df.columns \cup {"emotion"},
              rows |-> [i \in 1..Len(texts) |->
                  IF "sentiment_score" \in df.columns
                  THEN [text |-> texts[i],
                        sentiment |-> df.rows[i].sentiment,
                        sentiment_score |-> df.rows[i].sentiment_score,
                        emotion |-> emotion_results[i][1]]
                  ELSE [text |-> texts[i],
                        sentiment |-> df.rows[i].sentiment,
                        emotion |-> emotion_results[i][1]]]]
    /\ pc' = "topics"
    /\ UNCHANGED <<topic_info, sentiment_pct, emotion_pct, mood, volatility,
                   correlation_df, narratives_df, insights, engine_vars>>

\* The classification step of the app on every non-empty list of texts.
InitClassify ==
    /\ \E n \in 1..MaxTexts : texts \in [1..n -> Texts]
    /\ df = [kind |-> "DataFrame", columns |-> {"text"},
             rows |-> [i \in 1..Len(texts) |-> [text |-> texts[i]]]]
    /\ sentiment_results = <<>>
    /\ emotion_results = <<>>
    /\ topic_model = None
    /\ topics_fitted = FALSE
    /\ topics = None
    /\ other_pc = "idle"
    /\ models = [id \in ModelIds |-> NotFitted]
    /\ target = NoModel
    /\ other_target = NoModel
    /\ other_fits = 0
    /\ topic_info = None
    /\ sentiment_pct = <<>>
    /\ emotion_pct = <<>>
    /\ mood = Zero
    /\ volatility = Zero
    /\ correlation_df = None
    /\ narratives_df = None
    /\ insights = <<>>
    /\ pc = "sentiment"

NextClassify ==
    \/ AnalyzeSentiment
    \/ StoreSentiments
    \/ AnalyzeEmotion
    \/ StoreEmotions

SpecClassify == InitClassify /\ [][NextClassify]_vars


\* ---------------------------------------------------------------- claims

\* Positions of the run before the analytics step, or ended before it.
NotAnalysed ==
    {"fit_topics", "fit_transform", "fitting", "fitted", "topic_info",
     "raised_fit_topics", "raised_topic_info"}

DistributionsComputed ==
    pc \notin NotAnalysed \cup {"distributions"}

MoodComputed ==
    pc \notin NotAnalysed \cup {"distributions", "mood"}

VolatilityComputed ==
    pc \notin NotAnalysed \cup {"distributions", "mood", "volatility"}

CorrelationComputed == pc \in {"narratives", "insights", "raised", "done"}

NarrativesComputed ==
    pc \in {"insights", "raised", "done"} /\ topic_info.kind # "None"

Hundred == FromInt(100)

\* C1: a Distribution of exactly one category, which holds 100%, has
\* volatility index exactly 0.
C1_SingleCategoryVolatilityZero ==
    (VolatilityComputed
        /\ Cardinality(DOMAIN emotion_pct) = 1
        /\ \A l \in DOMAIN emotion_pct : emotion_pct[l] = Hundred)
    => volatility = Zero

\* The labels of a field that occur in the corpus.
Observed(field) == {df.rows[i][field] : i \in 1..Len(df.rows)}

Occurrences(field, label) ==
    Cardinality({i \in 1..Len(df.rows) : df.rows[i][field] = label})

\* C2 as stated: the keys of each Distribution are exactly the observed
\* labels and each value is count / total * 100 rounded to one decimal.
C2_DistributionRounded ==
    DistributionsComputed =>
        /\ DOMAIN sentiment_pct = Observed("sentiment")
        /\ DOMAIN emotion_pct = Observed("emotion")
        /\ \A l \in DOMAIN sentiment_pct :
              sentiment_pct[l]
                  = Round1(Rat(100 * Occurrences("sentiment", l), Len(df.rows)))
        /\ \A l \in DOMAIN emotion_pct :
              emotion_pct[l]
                  = Round1(Rat(100 * Occurrences("emotion", l), Len(df.rows)))

\* C2 amended: the keys of each Distribution are exactly the observed
\* labels (none for an empty corpus) and each value is exactly
\* count / total * 100, not rounded: value * total = 100 * count.
C2_DistributionExact ==
    DistributionsComputed =>
        /\ DOMAIN sentiment_pct = Observed("sentiment")
        /\ DOMAIN emotion_pct = Observed("emotion")
        /\ Len(df.rows) = 0 => DOMAIN sentiment_pct = {} /\ DOMAIN emotion_pct = {}
        /\ \A l \in DOMAIN sentiment_pct :
              sentiment_pct[l].num * Len(df.rows)
                  = 100 * Occurrences("sentiment", l) * sentiment_pct[l].den
        /\ \A l \in DOMAIN emotion_pct :
              emotion_pct[l].num * Len(df.rows)
                  = 100 * Occurrences("emotion", l) * emotion_pct[l].den

\* One document of three is POSITIVE: its share, 100/3, has no one-decimal
\* form.
C2_Witness ==
    /\ DistributionsComputed
    /\ Len(df.rows) = 3
    /\ "POSITIVE" \in DOMAIN sentiment_pct
    /\ sentiment_pct["POSITIVE"] = Rat(100, 3)
    /\ "NEUTRAL" \notin DOMAIN sentiment_pct

\* The percentages a Distribution is varied over.
GridPcts == {Rat(100 * i, GridSteps) : i \in 0..GridSteps}

\* series with the value of key set to value.
With(series, key, value) ==
    [l \in DOMAIN series \cup {key} |-> IF l = key THEN value ELSE series[l]]

\* C3: the mood score lies in [0, 100]; raising POSITIVE alone never lowers
\* it and raising NEGATIVE alone never raises it.
C3_MoodRangeAndMonotone ==
    MoodComputed =>
        /\ RLe(Zero, mood) /\ RLe(mood, Hundred)
        /\ \A p \in GridPcts :
              /\ RLe(Get(sentiment_pct, "POSITIVE"), p)
                    => RLe(mood, mood_score(With(sentiment_pct, "POSITIVE", p),
                                            emotion_pct))
              /\ RLe(Get(sentiment_pct, "NEGATIVE"), p)
                    => RLe(mood_score(With(sentiment_pct, "NEGATIVE", p),
                                      emotion_pct), mood)

\* A score strictly inside the range that moves both ways: up with more
\* POSITIVE, down with more NEGATIVE.
C3_Witness ==
    /\ MoodComputed
    /\ RLt(Zero, mood) /\ RLt(mood, Hundred)
    /\ RLt(mood, mood_score(With(sentiment_pct, "POSITIVE", Hundred), emotion_pct))
    /\ RLt(mood_score(With(sentiment_pct, "NEGATIVE", Hundred), emotion_pct), mood)
    /\ Get(emotion_pct, "anger") = Rat(25, 1)

\* 50 + ((POSITIVE - NEGATIVE) - 0.3 * (anger + disgust + fear + sadness) / 4) / 2
\* as 50 + (POSITIVE - NEGATIVE) / 2 - 3 * (anger + disgust + fear + sadness) / 80.
MoodFormula(s_pct, e_pct) ==
    LET negatives == RAdd(RAdd(Get(e_pct, "anger"), Get(e_pct, "disgust")),
                          RAdd(Get(e_pct, "fear"), Get(e_pct, "sadness")))
        raw == RSub(RAdd(FromInt(50),
                         RDivInt(RSub(Get(s_pct, "POSITIVE"),
                                      Get(s_pct, "NEGATIVE")), 2)),
                    RMul(negatives, Rat(3, 80)))
    IN  IF RLt(raw, Zero) THEN Zero
        ELSE IF RLt(Hundred, raw) THEN Hundred
        ELSE raw

ScenarioSentiment ==
    [l \in Sentiments |-> IF l = "POSITIVE" THEN Rat(50, 1) ELSE Rat(25, 1)]

ScenarioEmotion ==
    [l \in {"joy", "anger", "neutral"} |->
        IF l = "joy" THEN Rat(50, 1) ELSE Rat(25, 1)]

\* C4: the mood score is the clamped formula rounded to one decimal, absent
\* keys counting as 0; POSITIVE = NEGATIVE = 0 with no emotions gives 50.0
\* and the 4-document scenario gives 61.6.
C4_MoodFormula ==
    MoodComputed =>
        /\ mood = Round1(MoodFormula(sentiment_pct, emotion_pct))
        /\ (Get(sentiment_pct, "POSITIVE") = Zero
              /\ Get(sentiment_pct, "NEGATIVE") = Zero
              /\ DOMAIN emotion_pct = {})
           => mood = Rat(50, 1)
        /\ (sentiment_pct = ScenarioSentiment /\ emotion_pct = ScenarioEmotion)
           => mood = Rat(616, 10)

\* The 4-document scenario, scored.
C4_Witness ==
    /\ MoodComputed
    /\ sentiment_pct = ScenarioSentiment
    /\ emotion_pct = ScenarioEmotion
    /\ mood = Rat(616, 10)

\* The rows of Topic Info that yield a Topic Summary: not the outlier
\* topic, and at least one document of the corpus carries the topic.
Summarised ==
    {i \in 1..Len(topic_info.rows) :
        /\ topic_info.rows[i].Topic # -1
        /\ \E j \in 1..Len(df.rows) : df.rows[j].topic = topic_info.rows[i].Topic}

\* C5: with a topic field and no topic of Topic Info to summarise,
\* detect_narratives returns an empty sequence and does not raise.
C5_NoDataGivesEmpty ==
    (NarrativesComputed /\ Summarised = {})
    => (narratives_df.kind = "DataFrame" /\ narratives_df.rows = <<>>)

\* Position in Topic Info of the row with the given topic id.
InfoIndex(topic_id) ==
    CHOOSE i \in 1..Len(topic_info.rows) : topic_info.rows[i].Topic = topic_id

C6_WitnessKept ==
    /\ NarrativesComputed
    /\ narratives_df.kind = "DataFrame"
    /\ Len(narratives_df.rows) = 2
    /\ narratives_df.rows[1].document_count
          = narratives_df.rows[2].document_count
    /\ InfoIndex(narratives_df.rows[1].topic_id)
          < InfoIndex(narratives_df.rows[2].topic_id)

\* The sort moved a later row of Topic Info, with more documents, ahead of
\* an earlier one.
C6_WitnessReordered ==
    /\ NarrativesComputed
    /\ narratives_df.kind = "DataFrame"
    /\ Len(narratives_df.rows) = 2
    /\ narratives_df.rows[1].document_count = 2
    /\ narratives_df.rows[2].document_count = 1
    /\ InfoIndex(narratives_df.rows[1].topic_id)
          > InfoIndex(narratives_df.rows[2].topic_id)

DocsOfTopic(topic_id) == {i \in 1..Len(df.rows) : df.rows[i].topic = topic_id}

DocsOfTopicWith(topic_id, sentiment) ==
    {i \in DocsOfTopic(topic_id) : df.rows[i].sentiment = sentiment}

\* C7: every Topic Summary has a topic_id other than -1, a document_count
\* equal to the number of records of that topic (at least 1), and
\* positive_pct + negative_pct <= 100.
C7_SummaryInvariant ==
    (NarrativesComputed /\ narratives_df.kind = "DataFrame") =>
        \A i \in 1..Len(narratives_df.rows) :
            LET r == narratives_df.rows[i]
            IN  /\ r.topic_id # -1
                /\ r.document_count = Cardinality(DocsOfTopic(r.topic_id))
                /\ r.document_count >= 1
                /\ RLe(RAdd(r.positive_pct, r.negative_pct), Hundred)

\* A topic of three documents, one POSITIVE and two NEGATIVE, in a corpus
\* that also has an outlier topic row: 33.3 + 66.7 = 100.
C7_Witness ==
    /\ NarrativesComputed
    /\ narratives_df.kind = "DataFrame"
    /\ \E i \in 1..Len(topic_info.rows) : topic_info.rows[i].Topic = -1
    /\ \E i \in 1..Len(narratives_df.rows) :
          /\ narratives_df.rows[i].document_count = 3
          /\ narratives_df.rows[i].positive_pct = Rat(333, 10)
          /\ narratives_df.rows[i].negative_pct = Rat(667, 10)

\* C8: no Correlation Entry has topic -1; a corpus whose documents are all
\* of topic -1 yields no entries.
C8_NoOutlierEntries ==
    CorrelationComputed =>
        /\ correlation_df.kind = "DataFrame"
        /\ \A i \in 1..Len(correlation_df.rows) : correlation_df.rows[i].topic # -1
        /\ (\A j \in 1..Len(df.rows) : df.rows[j].topic = -1)
              => correlation_df.rows = <<>>

\* A corpus that opens with an outlier document and has a clustered one:
\* entries are emitted, none for -1.
C8_Witness ==
    /\ CorrelationComputed
    /\ Len(df.rows) >= 2
    /\ df.rows[1].topic = -1
    /\ \E j \in 1..Len(df.rows) : df.rows[j].topic # -1
    /\ Len(correlation_df.rows) >= 1

\* C9: every sentiment_score is 100 * (pos_count - neg_count) / total over
\* the topic's documents, rounded to one decimal, within [-100, 100]; 100.0
\* when all are POSITIVE and -100.0 when all are NEGATIVE.
C9_SentimentScore ==
    (NarrativesComputed /\ narratives_df.kind = "DataFrame") =>
        \A i \in 1..Len(narratives_df.rows) :
            LET r == narratives_df.rows[i]
                pos == Cardinality(DocsOfTopicWith(r.topic_id, "POSITIVE"))
                neg == Cardinality(DocsOfTopicWith(r.topic_id, "NEGATIVE"))
                total == Cardinality(DocsOfTopic(r.topic_id))
            IN  /\ r.sentiment_score = Round1(Rat(100 * (pos - neg), total))
                /\ RLe(FromInt(-100), r.sentiment_score)
                /\ RLe(r.sentiment_score, Hundred)
                /\ pos = total => r.sentiment_score = Hundred
                /\ neg = total => r.sentiment_score = FromInt(-100)

\* Two topics in one corpus, one all NEGATIVE (-100.0) and one with a
\* single POSITIVE among other documents of another topic.
C9_Witness ==
    /\ NarrativesComputed
    /\ narratives_df.kind = "DataFrame"
    /\ Len(narratives_df.rows) = 2
    /\ \E i, j \in 1..2 :
          /\ narratives_df.rows[i].sentiment_score = FromInt(-100)
          /\ narratives_df.rows[i].document_count = 2
          /\ narratives_df.rows[j].sentiment_score = Hundred

\* C10: the insights are the mood, emotion and sample-size statements in
\* this order; there are 3 of them when the Topic Summaries are absent or
\* empty, and a fourth, naming the first Topic Summary, otherwise.
C10_InsightShape ==
    pc = "done" =>
        /\ Len(insights) >= 3
        /\ insights[1].kind = "mood"
        /\ insights[1].args = <<mood>>
        /\ insights[2].kind = "emotion"
        /\ insights[3].kind = "volume"
        /\ insights[3].args = <<Len(df.rows)>>
        /\ IF narratives_df.kind = "None" \/ Len(narratives_df.rows) = 0
           THEN Len(insights) = 3
           ELSE /\ Len(insights) = 4
                /\ insights[4].kind = "topic"
                /\ insights[4].args[1] = narratives_df.rows[1].narrative

\* Four insights from a one-row table of Topic Summaries.
C10_Witness ==
    /\ pc = "done"
    /\ narratives_df.kind = "DataFrame"
    /\ Len(narratives_df.rows) = 1
    /\ Len(insights) = 4
    /\ insights[2].label = "Strong Emotional Signal"

\* Three insights from an empty table of Topic Summaries.
C10_WitnessEmpty ==
    /\ pc = "done"
    /\ narratives_df.kind = "DataFrame"
    /\ Len(narratives_df.rows) = 0
    /\ Len(insights) = 3

\* C13: the volatility index is 0 for the empty Distribution and otherwise
\* 100 * (1 - (max - min) / 100), that is 100 - (max - min), rounded to one
\* decimal, a value in [0, 100]; two or more categories with equal shares
\* give exactly 100.
C13_VolatilityFormula ==
    VolatilityComputed =>
        /\ DOMAIN emotion_pct = {} => volatility = Zero
        /\ DOMAIN emotion_pct # {} =>
              \E hi, lo \in DOMAIN emotion_pct :
                  /\ \A l \in DOMAIN emotion_pct :
                        RLe(emotion_pct[lo], emotion_pct[l])
                            /\ RLe(emotion_pct[l], emotion_pct[hi])
                  /\ volatility
                        = Round1(RSub(Hundred,
                                      RSub(emotion_pct[hi], emotion_pct[lo])))
        /\ RLe(Zero, volatility) /\ RLe(volatility, Hundred)
        /\ (Cardinality(DOMAIN emotion_pct) >= 2
              /\ \A l, m \in DOMAIN emotion_pct : emotion_pct[l] = emotion_pct[m])
           => volatility = Hundred

\* joy 50 and anger 50 give 100.
C13_Witness ==
    /\ VolatilityComputed
    /\ DOMAIN emotion_pct = {"joy", "anger"}
    /\ emotion_pct["joy"] = Rat(50, 1)
    /\ emotion_pct["anger"] = Rat(50, 1)
    /\ volatility = Hundred

\* joy 75 and anger 25 give 50.
C13_WitnessSpread ==
    /\ VolatilityComputed
    /\ DOMAIN emotion_pct = {"joy", "anger"}
    /\ emotion_pct["joy"] = Rat(75, 1)
    /\ emotion_pct["anger"] = Rat(25, 1)
    /\ volatility = Rat(50, 1)

\* The documents of a topic that carry an emotion, by position in the corpus.
DocsOfTopicFeeling(topic_id, emotion) ==
    {i \in DocsOfTopic(topic_id) : df.rows[i].emotion = emotion}

\* The emotions with the greatest count among the documents of a topic.
TopEmotions(topic_id) ==
    {e \in {df.rows[i].emotion : i \in DocsOfTopic(topic_id)} :
        \A f \in {df.rows[i].emotion : i \in DocsOfTopic(topic_id)} :
            Cardinality(DocsOfTopicFeeling(topic_id, f))
                <= Cardinality(DocsOfTopicFeeling(topic_id, e))}

\* The position of the document with which an emotion reaches its full
\* count in a topic: its last document of the topic.
ReachedAt(topic_id, emotion) ==
    CHOOSE i \in DocsOfTopicFeeling(topic_id, emotion) :
        \A j \in DocsOfTopicFeeling(topic_id, emotion) : j <= i

\* C14 as stated: dominant_emotion has the greatest count in its topic and,
\* among the emotions that tie for it, is the first to reach that count in
\* the order of the documents.
C14_DominantFirstToReach ==
    (NarrativesComputed /\ narratives_df.kind = "DataFrame") =>
        \A i \in 1..Len(narratives_df.rows) :
            LET r == narratives_df.rows[i]
            IN  /\ r.dominant_emotion \in TopEmotions(r.topic_id)
                /\ \A e \in TopEmotions(r.topic_id) :
                      ReachedAt(r.topic_id, r.dominant_emotion)
                          <= ReachedAt(r.topic_id, e)

\* C14 amended: dominant_emotion has the greatest count in its topic and,
\* among the emotions that tie for it, is the first in sorted order.
C14_DominantLeastLabel ==
    (NarrativesComputed /\ narratives_df.kind = "DataFrame") =>
        \A i \in 1..Len(narratives_df.rows) :
            LET r == narratives_df.rows[i]
            IN  /\ r.dominant_emotion \in TopEmotions(r.topic_id)
                /\ \A e \in TopEmotions(r.topic_id) :
                      Rank(r.dominant_emotion) <= Rank(e)

\* A topic whose documents are joy then anger, one each: anger is reported.
C14_Witness ==
    /\ NarrativesComputed
    /\ narratives_df.kind = "DataFrame"
    /\ \E i \in 1..Len(narratives_df.rows) :
          LET r == narratives_df.rows[i]
          IN  /\ TopEmotions(r.topic_id) = {"joy", "anger"}
              /\ ReachedAt(r.topic_id, "joy") < ReachedAt(r.topic_id, "anger")
              /\ r.dominant_emotion = "anger"

\* Position of the first document of a topic.
FirstAppearance(topic_id) ==
    CHOOSE i \in DocsOfTopic(topic_id) : \A j \in DocsOfTopic(topic_id) : i <= j

\* C15: for each topic other than -1 there is exactly one Correlation Entry
\* per emotion of the topic's documents and no other entry; its percentage
\* is the emotion's share of the topic's documents rounded to one decimal;
\* the entries of a topic are contiguous and the topics are in order of
\* first appearance.
C15_CorrelationEntries ==
    CorrelationComputed =>
        LET rows == correlation_df.rows
        IN  /\ \A t \in TopicIds \ {-1} :
                  \A e \in {df.rows[i].emotion : i \in DocsOfTopic(t)} :
                      Cardinality({i \in 1..Len(rows) :
                                      rows[i].topic = t /\ rows[i].emotion = e}) = 1
            /\ \A i \in 1..Len(rows) :
                  /\ rows[i].topic # -1
                  /\ DocsOfTopicFeeling(rows[i].topic, rows[i].emotion) # {}
                  /\ rows[i].percentage
                        = Round1(Rat(100 * Cardinality(DocsOfTopicFeeling(
                                                 rows[i].topic, rows[i].emotion)),
                                     Cardinality(DocsOfTopic(rows[i].topic))))
            /\ \A i, j \in 1..Len(rows) :
                  i < j => FirstAppearance(rows[i].topic)
                              <= FirstAppearance(rows[j].topic)

\* Topic 0, then topic 1, then topic 0 again with another emotion: the two
\* entries of topic 0 come first, then the entry of topic 1.
C15_Witness ==
    /\ CorrelationComputed
    /\ Len(df.rows) = 3
    /\ df.rows[1].topic = 0 /\ df.rows[2].topic = 1 /\ df.rows[3].topic = 0
    /\ df.rows[1].emotion # df.rows[3].emotion
    /\ Len(correlation_df.rows) = 3
    /\ correlation_df.rows[1].topic = 0
    /\ correlation_df.rows[2].topic = 0
    /\ correlation_df.rows[3].topic = 1
    /\ correlation_df.rows[1].percentage = Rat(50, 1)

\* The required fields that some record of the corpus lacks.
MissingFields ==
    {f \in {"sentiment", "emotion"} :
        \E i \in 1..Len(df.rows) : f \notin df.columns \/ df.rows[i][f] = NaN}

\* C11: a corpus with a record that lacks its sentiment or its emotion is
\* rejected with an error that names a missing field; no Distribution is
\* computed from it.
C11_MissingFieldRejected ==
    (pc # "distributions" /\ MissingFields # {})
    => /\ pc = "raised"
       /\ sentiment_pct.kind = "KeyError"
       /\ sentiment_pct.key \in MissingFields

\* Texts already analysed on which the sentiment classifier failed.
SentimentFailures ==
    {i \in 1..Len(sentiment_results) : texts[i].sentiment.kind = "raise"}

\* Texts already analysed on which the emotion classifier failed.
EmotionFailures ==
    {i \in 1..Len(emotion_results) : texts[i].emotion.kind = "raise"}

\* The step never stops on an error, and once it is over every text has a
\* sentiment label and an emotion label in the frame.
NoErrorPropagates ==
    /\ pc \in {"sentiment", "emotion", "topics"}
    /\ pc = "topics" =>
           /\ Len(df.rows) = Len(texts)
           /\ \A i \in SentimentFailures : df.rows[i].sentiment = "NEUTRAL"
           /\ \A i \in EmotionFailures : df.rows[i].emotion = "neutral"

EmotionFallback ==
    \A i \in EmotionFailures :
        /\ emotion_results[i][1] = "neutral"
        /\ DOMAIN emotion_results[i][2] = {}

\* C12 as stated: when the sentiment classifier fails on a text,
\* get_sentiment returns NEUTRAL with confidence 0 and no error propagates;
\* a failing emotion classifier yields "neutral" with an empty mapping.
C12_FailureZeroConfidence ==
    /\ \A i \in SentimentFailures :
           sentiment_results[i] = <<"NEUTRAL", Zero>>
    /\ EmotionFallback
    /\ NoErrorPropagates

\* C12 amended: when the sentiment classifier fails on a text,
\* get_sentiment returns NEUTRAL with confidence 0.5 and no error
\* propagates; a failing emotion classifier yields "neutral" with an empty
\* mapping.
C12_FailureHalfConfidence ==
    /\ \A i \in SentimentFailures :
           sentiment_results[i] = <<"NEUTRAL", Rat(1, 2)>>
    /\ EmotionFallback
    /\ NoErrorPropagates

\* Both classifiers failed on some text and the step ran to its end.
C12_Witness ==
    /\ pc = "topics"
    /\ SentimentFailures \cap EmotionFailures # {}
    /\ \E i \in 1..Len(texts) : i \notin SentimentFailures \cup EmotionFailures

====
